---------------------------- MODULE Spec2Model ----------------------------
(***************************************************************************)
(* A model of the SERP monitor (serp_monitor.py, with the older script     *)
(* SERP_Monitor_log.py where its code differs): the probe (fetch), the     *)
(* cycle loop with its semaphore-bounded batch (monitor), the aggregation  *)
(* (analyze_results) and the alert rules (check_alerts).                   *)
(*                                                                         *)
(* Units.  Rates are Python floats rounded to two decimals; the model      *)
(* keeps them as integers in hundredths of a percent (20.0 is 2000), and   *)
(* the thresholds on the same scale.  Content sizes are kept in bytes, the *)
(* floor in KB.  Elapsed times are whole seconds.  A timestamp is the      *)
(* reading of a clock that starts at 0 with each cycle.                    *)
(***************************************************************************)
EXTENDS Integers, Sequences, FiniteSets, TLC

VARIABLES
    config,         \* the loaded configuration (Config.config), fixed during a run
    pc,             \* position of the monitor() coroutine
    minute,         \* loop variable of monitor(): index of the current cycle
    sem,            \* permits left in the cycle's asyncio.Semaphore
    tasks,          \* the probe tasks handed to asyncio.gather
    results,        \* what gather returned for the current cycle
    analysis,       \* analyze_results(results): sequence of per-engine stats
    todo,           \* engines of analysis still to be processed in this cycle
    status_window,  \* engine -> the four deques (maxlen 3)
    alerts,         \* the send_alert calls made, in order (those of the current
                    \* cycle, or of the whole run where the run is recorded)
    now,            \* the clock time.time() reads, relative to the cycle start
    call,           \* one fetch call: program, engine configuration, what the network does
    outcome,        \* what that fetch call produced
    args,           \* the parsed command line (--engines, --duration)
    log             \* the notices of the main log that end a run, in order

vars == <<config, pc, minute, sem, tasks, results, analysis, todo,
          status_window, alerts, now, call, outcome, args, log>>

monitorVars == <<config, pc, minute, sem, tasks, results, analysis, todo,
                 status_window, alerts, now, args, log>>

-----------------------------------------------------------------------------
(* Bounds of the model. *)

MaxRequests == 2
MaxConcurrency == 2
MaxDuration == 2
WindowCycles == 4
BurstRequests == 4
MaxClock == 2
MaxBatch == 3
RuleRequests == 3
ScenarioRequests == 5

(* Values of the thresholds, as the older script sets them. *)
TIMEOUT_SECONDS == 20
TIMEOUT_LIMIT == 10
MIN_CONTENT_SIZE_KB == 2

None == "None"

\* No fetch call made yet, or not yet ended.
NoOutcome == [kind |-> "none"]

-----------------------------------------------------------------------------
(* Strings as sequences of characters, so that lower() and `in` are        *)
(* computed and not assumed.                                               *)

UpperCase == <<"A","B","C","D","E","F","G","H","I","J","K","L","M",
               "N","O","P","Q","R","S","T","U","V","W","X","Y","Z">>
LowerCase == <<"a","b","c","d","e","f","g","h","i","j","k","l","m",
               "n","o","p","q","r","s","t","u","v","w","x","y","z">>

LowerChar(c) ==
    IF \E i \in 1..26 : UpperCase[i] = c
    THEN LowerCase[CHOOSE i \in 1..26 : UpperCase[i] = c]
    ELSE c

\* str.lower()
lower(s) == [i \in 1..Len(s) |-> LowerChar(s[i])]

\* sub in s
Contains(sub, s) ==
    \E k \in 0..(Len(s) - Len(sub)) :
        \A j \in 1..Len(sub) : s[k + j] = sub[j]

html == <<"h","t","m","l">>

TextHtml == <<"t","e","x","t","/","h","t","m","l">>
TextHtmlUtf8 == <<"t","e","x","t","/","h","t","m","l",";"," ","c","h","a","r","s","e","t","=","u","t","f","-","8">>
TextHTMLUpper == <<"t","e","x","t","/","H","T","M","L">>
AppJson == <<"a","p","p","l","i","c","a","t","i","o","n","/","j","s","o","n">>
AppXhtml == <<"a","p","p","l","i","c","a","t","i","o","n","/","x","h","t","m","l","+","x","m","l">>

(* The Content-Type header of a response, as the set of its values: empty  *)
(* when the response carries no such header.                               *)
ContentTypes == { {}, {TextHtml}, {TextHtmlUtf8}, {TextHTMLUpper}, {AppJson}, {AppXhtml} }

\* r.headers.get("Content-Type", "")
HeaderGet(content_type) ==
    IF content_type = {} THEN <<>> ELSE CHOOSE v \in content_type : TRUE

-----------------------------------------------------------------------------
(* fetch *)

Statuses == {200, 404, 500, 502, 503, 504}
Sizes == {MIN_CONTENT_SIZE_KB * 1024 - 1, MIN_CONTENT_SIZE_KB * 1024,
          MIN_CONTENT_SIZE_KB * 1024 + 1}
Elapsed == {0, TIMEOUT_LIMIT - 1, TIMEOUT_LIMIT, TIMEOUT_LIMIT + 1, TIMEOUT_SECONDS}
Exceptions == {"ClientConnectorError", "ClientPayloadError", "TimeoutError"}

(* What the network does with one request.  aiohttp's total timeout aborts *)
(* the request with TimeoutError once timeout_seconds have passed, so a    *)
(* response is read within them and a TimeoutError comes no sooner.        *)
HttpResponses ==
    { r \in [kind : {"response"}, status : Statuses, content_type : ContentTypes,
             size : Sizes, elapsed : Elapsed] : r.elapsed <= TIMEOUT_SECONDS }
HttpFailures ==
    { r \in [kind : {"exception"}, exception : Exceptions, elapsed : Elapsed] :
        r.exception = "TimeoutError" => r.elapsed >= TIMEOUT_SECONDS }
Responses == HttpResponses \cup HttpFailures

\* An engine's entry of search_engines, as the set of its keys.
EngineConfigs == { {"domain", "param"}, {"domain", "param", "engine"},
                   {"param"}, {"domain"} }

\* build_payload raises KeyError when the entry lacks "domain" or "param".
build_payload(engine_config) ==
    IF "domain" \in engine_config /\ "param" \in engine_config
    THEN [raised |-> FALSE]
    ELSE [raised |-> TRUE, exception |-> "KeyError"]

\* "html" not in r.headers.get("Content-Type", "").lower()
not_html(content_type) == ~Contains(html, lower(HeaderGet(content_type)))

\* "html" not in r.headers.get("Content-Type", "")      (the older script)
log_not_html(content_type) == ~Contains(html, HeaderGet(content_type))

\* content_size >= min_content_size_kb, content_size = bytes / 1024
size_ok(size) == size >= MIN_CONTENT_SIZE_KB * 1024

\* A fetch that flags a response taking exactly the limit.
is_timeout_at_limit(elapsed) == elapsed >= TIMEOUT_LIMIT

\* elapsed > timeout_limit
is_timeout(elapsed) == elapsed > TIMEOUT_LIMIT

\* The dict fetch returns from its try block.
response_result(engine, r, htmlfree, timestamp) ==
    [engine |-> engine,
     status |-> r.status,
     elapsed |-> r.elapsed,
     is_timeout |-> is_timeout(r.elapsed),
     success |-> (r.status = 200 /\ htmlfree /\ size_ok(r.size)),
     timestamp |-> timestamp]

\* An except block that derives is_timeout from the elapsed time.
failure_result_by_elapsed(engine, r, timestamp) ==
    [engine |-> engine,
     status |-> 0,
     elapsed |-> r.elapsed,
     is_timeout |-> is_timeout(r.elapsed),
     success |-> FALSE,
     timestamp |-> timestamp]

\* The dict fetch returns from its except block.
failure_result(engine, r, timestamp) ==
    [engine |-> engine,
     status |-> 0,
     elapsed |-> r.elapsed,
     is_timeout |-> TRUE,
     success |-> FALSE,
     timestamp |-> timestamp]

(* The except block of fetch: it builds the payload a second time for the  *)
(* log line, outside any try, and then returns the failure dict.           *)
fetch_except(engine, engine_config, r, timestamp) ==
    IF build_payload(engine_config).raised
    THEN [kind |-> "raise", exception |-> build_payload(engine_config).exception]
    ELSE [kind |-> "return", result |-> failure_result(engine, r, timestamp)]

(* SERPMonitor.fetch.  The payload is built inside the try; the request is *)
(* sent only when that succeeded.                                          *)
fetch(engine, engine_config, r, timestamp) ==
    IF build_payload(engine_config).raised
    THEN fetch_except(engine, engine_config, [elapsed |-> 0], timestamp)
    ELSE IF r.kind = "response"
         THEN [kind |-> "return",
               result |-> response_result(engine, r, not_html(r.content_type), timestamp)]
         ELSE fetch_except(engine, engine_config, r, timestamp)

(* fetch of SERP_Monitor_log.py: the same, with the case-sensitive test of *)
(* the content type.                                                       *)
log_fetch(engine, engine_config, r, timestamp) ==
    IF build_payload(engine_config).raised
    THEN fetch_except(engine, engine_config, [elapsed |-> 0], timestamp)
    ELSE IF r.kind = "response"
         THEN [kind |-> "return",
               result |-> response_result(engine, r, log_not_html(r.content_type), timestamp)]
         ELSE fetch_except(engine, engine_config, r, timestamp)

-----------------------------------------------------------------------------
(* analyze_results *)

maxlen == 3

\* The number of consecutive server errors the burst rule looks for.
BurstLength == 3

ServerErrors == {500, 502, 504}

\* A rate cut off after the second decimal.
rate_truncated(count, total) == (count * 10000) \div total

(* round(count / total * 100, 2), in hundredths of a percent.  Python      *)
(* rounds the float to the nearest hundredth, an exact tie to the even     *)
(* one; for totals below 160 the float computation agrees with the exact   *)
(* quotient rounded this way.                                              *)
rate(count, total) ==
    LET n == count * 10000
        q == n \div total
        r == n % total
    IN  IF 2 * r < total THEN q
        ELSE IF 2 * r > total THEN q + 1
        ELSE IF q % 2 = 0 THEN q ELSE q + 1

RECURSIVE engines_of(_, _)
\* The keys of grouped, in the order of their first result.
engines_of(rs, seen) ==
    IF rs = <<>> THEN <<>>
    ELSE IF Head(rs).engine \in seen THEN engines_of(Tail(rs), seen)
    ELSE <<Head(rs).engine>> \o engines_of(Tail(rs), seen \cup {Head(rs).engine})

\* One list of results shared by every engine.
group_of_batch(rs, engine) == rs

\* grouped[engine]
group_of(rs, engine) == SelectSeq(rs, LAMBDA r : r.engine = engine)

is_success(r) == r.success
is_timed_out(r) == r.is_timeout
is_exception(r) == r.status \in ServerErrors
\* An error count that takes in every probe that did not succeed.
is_error_any_failure(r) == ~r.success

is_error(r) == r.status = 0

\* analysis[engine]; each count is sum(1 for r in group if ...)
engine_stats(engine, group) ==
    LET total == Len(group)
        success == Len(SelectSeq(group, is_success))
        timeout == Len(SelectSeq(group, is_timed_out))
        exceptions == Len(SelectSeq(group, is_exception))
        errors == Len(SelectSeq(group, is_error))
    IN  [engine |-> engine,
         total |-> total,
         success |-> success,
         timeout |-> timeout,
         exceptions |-> exceptions,
         errors |-> errors,
         success_rate |-> rate(success, total),
         timeout_rate |-> rate(timeout, total),
         exception_rate |-> rate(exceptions, total),
         error_rate |-> rate(errors, total),
         results |-> group]

\* analyze_results: one entry per engine that has a result, in dict order.
analyze_results(rs) ==
    LET keys == engines_of(rs, {})
    IN  [i \in 1..Len(keys) |-> engine_stats(keys[i], group_of(rs, keys[i]))]

-----------------------------------------------------------------------------
(* check_alerts *)

\* A success-rate rule that also fires on rates equal to the threshold.
success_rule_le(buffer, threshold) ==
    Len(buffer) = 3 /\ \A i \in 1..Len(buffer) : buffer[i] <= threshold

\* len(s["success_rate"]) == 3 and all(x < threshold for x in s["success_rate"])
success_rule(buffer, threshold) ==
    Len(buffer) = 3 /\ \A i \in 1..Len(buffer) : buffer[i] < threshold

\* A timeout-rate rule that also fires on rates equal to the threshold.
timeout_rule_ge(buffer, threshold) ==
    Len(buffer) = 3 /\ \A i \in 1..Len(buffer) : buffer[i] >= threshold

\* len(s["timeout_rate"]) == 3 and all(x > threshold for x in s["timeout_rate"])
timeout_rule(buffer, threshold) ==
    Len(buffer) = 3 /\ \A i \in 1..Len(buffer) : buffer[i] > threshold

RECURSIVE insert_sorted(_, _)
\* r placed after every element whose timestamp is not larger (the sort is stable)
insert_sorted(sorted, r) ==
    IF sorted = <<>> THEN <<r>>
    ELSE IF Head(sorted).timestamp <= r.timestamp
         THEN <<Head(sorted)>> \o insert_sorted(Tail(sorted), r)
         ELSE <<r>> \o sorted

RECURSIVE sorted_by_timestamp(_)
\* sorted(stats["results"], key=lambda x: x.get("timestamp", 0))
sorted_by_timestamp(rs) ==
    IF rs = <<>> THEN <<>>
    ELSE insert_sorted(sorted_by_timestamp(SubSeq(rs, 1, Len(rs) - 1)), rs[Len(rs)])

\* any(codes[i], codes[i + 1], codes[i + 2] all in (500, 502, 504))
found_3_in_row(codes) ==
    \E i \in 1..(Len(codes) - 2) :
        /\ codes[i] \in ServerErrors
        /\ codes[i + 1] \in ServerErrors
        /\ codes[i + 2] \in ServerErrors

\* A burst rule that scans the results in the order of the batch.
burst_rule_unsorted(rs) == found_3_in_row([i \in 1..Len(rs) |-> rs[i].status])

burst_rule(rs) ==
    LET sorted == sorted_by_timestamp(rs)
        codes == [i \in 1..Len(sorted) |-> sorted[i].status]
    IN  found_3_in_row(codes)

\* Rules chained with elif: the first one that fires ends the evaluation.
check_alerts_first_only(engine, stats, window, cfg) ==
    LET s == window[engine]
    IN  IF success_rule(s.success_rate, cfg.threshold_success_rate)
        THEN <<[engine |-> engine, rule |-> "success_rate", data_list |-> s.success_rate]>>
        ELSE IF timeout_rule(s.timeout_rate, cfg.threshold_timeout_rate)
        THEN <<[engine |-> engine, rule |-> "timeout_rate", data_list |-> s.timeout_rate]>>
        ELSE IF burst_rule(stats.results)
        THEN <<[engine |-> engine, rule |-> "burst", data_list |-> <<>>]>>
        ELSE <<>>

\* Rules that include one on the exception-rate buffer.
check_alerts_with_exception_rule(engine, stats, window, cfg) ==
    LET s == window[engine]
    IN  (IF success_rule(s.success_rate, cfg.threshold_success_rate)
         THEN <<[engine |-> engine, rule |-> "success_rate", data_list |-> s.success_rate]>>
         ELSE <<>>)
        \o
        (IF timeout_rule(s.timeout_rate, cfg.threshold_timeout_rate)
         THEN <<[engine |-> engine, rule |-> "timeout_rate", data_list |-> s.timeout_rate]>>
         ELSE <<>>)
        \o
        (IF burst_rule(stats.results)
         THEN <<[engine |-> engine, rule |-> "burst", data_list |-> <<>>]>>
         ELSE <<>>)
        \o
        (IF timeout_rule(s.exception_rate, cfg.threshold_timeout_rate)
         THEN <<[engine |-> engine, rule |-> "exception_rate",
                 data_list |-> s.exception_rate]>>
         ELSE <<>>)

\* The send_alert calls of one check_alerts call, in order.
check_alerts(engine, stats, window, cfg) ==
    LET s == window[engine]
    IN  (IF success_rule(s.success_rate, cfg.threshold_success_rate)
         THEN <<[engine |-> engine, rule |-> "success_rate", data_list |-> s.success_rate]>>
         ELSE <<>>)
        \o
        (IF timeout_rule(s.timeout_rate, cfg.threshold_timeout_rate)
         THEN <<[engine |-> engine, rule |-> "timeout_rate", data_list |-> s.timeout_rate]>>
         ELSE <<>>)
        \o
        (IF burst_rule(stats.results)
         THEN <<[engine |-> engine, rule |-> "burst", data_list |-> <<>>]>>
         ELSE <<>>)

-----------------------------------------------------------------------------
(* monitor *)

\* A list that grows with every append.
deque_append_unbounded(d, x) == Append(d, x)

\* A deque that takes the new value at its left end.
deque_appendleft(d, x) ==
    IF Len(d) = maxlen THEN <<x>> \o SubSeq(d, 1, maxlen - 1) ELSE <<x>> \o d

\* deque(maxlen=3).append(x)
deque_append(d, x) ==
    IF Len(d) = maxlen THEN Tail(d) \o <<x>> ELSE Append(d, x)

engine_names(cfg) == { cfg.search_engines[i].name : i \in 1..Len(cfg.search_engines) }

\* self.config.search_engines[engine]
engine_keys(cfg, engine) ==
    cfg.search_engines[CHOOSE i \in 1..Len(cfg.search_engines) :
                           cfg.search_engines[i].name = engine].keys

empty_window == [success_rate |-> <<>>, timeout_rate |-> <<>>,
                 exception_rate |-> <<>>, error_rate |-> <<>>]

\* Appends that are made twice in a cycle.
push_rates_twice(s, stats) ==
    [success_rate |->
        deque_append(deque_append(s.success_rate, stats.success_rate), stats.success_rate),
     timeout_rate |->
        deque_append(deque_append(s.timeout_rate, stats.timeout_rate), stats.timeout_rate),
     exception_rate |->
        deque_append(deque_append(s.exception_rate, stats.exception_rate),
                     stats.exception_rate),
     error_rate |->
        deque_append(deque_append(s.error_rate, stats.error_rate), stats.error_rate)]

\* The four appends of one engine's rates.
push_rates(s, stats) ==
    [success_rate |-> deque_append(s.success_rate, stats.success_rate),
     timeout_rate |-> deque_append(s.timeout_rate, stats.timeout_rate),
     exception_rate |-> deque_append(s.exception_rate, stats.exception_rate),
     error_rate |-> deque_append(s.error_rate, stats.error_rate)]

\* The coroutines created for one cycle: per engine, requests_per_engine of them.
new_tasks(cfg, m) ==
    LET n == cfg.requests_per_engine
    IN  [k \in 1..(Len(cfg.search_engines) * n) |->
            [minute |-> m,
             engine |-> cfg.search_engines[((k - 1) \div n) + 1].name,
             st |-> "created",
             out |-> NoOutcome]]

\* A task list that is never emptied.
unfinished_and_finished(ts) == ts

\* Tasks the event loop still has to run.
unfinished(ts) == SelectSeq(ts, LAMBDA t : t.st # "done")

\* A semaphore that never makes a task wait.
sem_free_always(permits) == TRUE

\* async with sem: a permit is there to take
sem_free(permits) == permits > 0

\* A wait that returns once the first task has finished.
gather_done_first(ts) == \E i \in 1..Len(ts) : ts[i].st = "done"

\* await asyncio.gather(*tasks) returns once every task has finished
gather_done(ts) == \A i \in 1..Len(ts) : ts[i].st = "done"

\* ... or raises as soon as one task has raised
gather_raised(ts) == \E i \in 1..Len(ts) : ts[i].st = "done" /\ ts[i].out.kind = "raise"

\* The list gather returns: the tasks' results in the order of the tasks.
gather_results(ts) ==
    LET done == SelectSeq(ts, LAMBDA t : t.st = "done")
    IN  [i \in 1..Len(done) |-> done[i].out.result]

\* The event loop runs the tasks as long as monitor() has not ended.
Running == pc \in {"gather", "process", "loop"}

\* The notices of the main log that end a run.
ZeroNotice == "monitor duration is 0, exit"
InterruptNotice == "monitor interrupted by user"
ErrorNotice == "monitor exception"
EndNotice == "monitor ended"

\* A loop that runs once more than range() does.
range_has_next_inclusive(m, n) == m <= n

\* for minute in range(monitor_duration_minutes): there is one more value
range_has_next(m, n) == m < n

\* A handler that re-raises without writing to the main log.
except_Exception_unlogged(lg) == lg \o <<EndNotice>>

\* except Exception: logger.error(...), raise; then the finally block
except_Exception(lg) == lg \o <<ErrorNotice, EndNotice>>

\* A task that keeps its permit when it ends.
permits_after_kept(out, permits) == permits

\* A task that gives its permit back only when fetch has returned.
permits_after_return(out, permits) == IF out.kind = "raise" THEN permits ELSE permits + 1

(* The permits after a task has left `async with sem`: __aexit__ releases  *)
(* the permit when fetch has returned and when it has raised.              *)
permits_after(out, permits) == permits + 1

\* What the webhook does with one post: it answers, or the request fails.
Posts == {"status_200", "status_500", "exception"}

\* A send_alert whose post is outside any try block.
send_alert_unguarded(webhook, post) ==
    IF ~webhook THEN [raised |-> FALSE, delivery |-> "skipped"]
    ELSE IF post = "exception" THEN [raised |-> TRUE, delivery |-> "failed"]
    ELSE [raised |-> FALSE, delivery |-> post]

(* send_alert: nothing is sent without a webhook; the answer's status is   *)
(* logged whatever it is; an exception of the post is caught and logged.   *)
send_alert(webhook, post) ==
    IF ~webhook THEN [raised |-> FALSE, delivery |-> "skipped"]
    ELSE IF post = "exception" THEN [raised |-> FALSE, delivery |-> "failed"]
    ELSE [raised |-> FALSE, delivery |-> post]

\* An alert manager that is silent when it sent the same alert a cycle ago.
emit_deduplicated(sent, new) ==
    sent \o SelectSeq(new, LAMBDA a :
                ~\E i \in 1..Len(sent) : /\ sent[i].engine = a.engine
                                         /\ sent[i].rule = a.rule
                                         /\ sent[i].minute = a.minute - 1)

\* An alert manager that sends the burst alert of an engine once in a run.
emit_burst_once(sent, new) ==
    sent \o SelectSeq(new, LAMBDA a :
                ~(/\ a.rule = "burst"
                  /\ \E i \in 1..Len(sent) : /\ sent[i].engine = a.engine
                                             /\ sent[i].rule = "burst"))

(* The alert manager keeps no record of what it has sent: every call of    *)
(* check_alerts to send_alert adds to what has been sent.                  *)
emit(sent, new) == sent \o new

(* x < self.config.threshold_success_rate raises TypeError when the        *)
(* threshold of config.json is a string; all() reaches the comparison once *)
(* the deque holds three values.                                           *)
check_alerts_raises(s, cfg) == ~cfg.success_rate_is_number /\ Len(s.success_rate) = 3

\* The duration check, and the creation of the windows.
Start ==
    /\ pc = "start"
    /\ IF config.monitor_duration_minutes <= 0
       THEN /\ pc' = "returned"
            /\ log' = log \o <<ZeroNotice>>
            /\ UNCHANGED status_window
       ELSE /\ pc' = "loop"
            /\ status_window' = [e \in engine_names(config) |-> empty_window]
            /\ UNCHANGED log
    /\ UNCHANGED <<config, minute, sem, tasks, results, analysis, todo, alerts, now,
                   call, outcome, args>>

(* One more iteration of the for loop: the semaphore and the tasks of the  *)
(* cycle.  remember: the send_alert calls of earlier cycles stay recorded. *)
StartCycle(remember) ==
    /\ pc = "loop"
    /\ range_has_next(minute, config.monitor_duration_minutes)
    /\ sem' = config.concurrency
    /\ tasks' = unfinished(tasks) \o new_tasks(config, minute)
    /\ now' = 0
    /\ alerts' = IF remember THEN alerts ELSE <<>>
    /\ results' = <<>>
    /\ analysis' = <<>>
    /\ pc' = "gather"
    /\ UNCHANGED <<config, minute, todo, status_window, call, outcome, args, log>>

\* range() is exhausted: the finally block, and monitor() returns.
Finish ==
    /\ pc = "loop"
    /\ ~range_has_next(minute, config.monitor_duration_minutes)
    /\ pc' = "finished"
    /\ log' = log \o <<EndNotice>>
    /\ UNCHANGED <<config, minute, sem, tasks, results, analysis, todo,
                   status_window, alerts, now, call, outcome, args>>

(* A task enters `async with sem` and sends its request.  gather starts    *)
(* the tasks in the order of the list and the semaphore wakes its waiters  *)
(* first come, first served: the permits are taken in the tasks' order.    *)
Acquire(i) ==
    /\ Running
    /\ tasks[i].st = "created"
    /\ \A j \in 1..(i - 1) : tasks[j].st # "created"
    /\ sem_free(sem)
    /\ sem' = sem - 1
    /\ tasks' = [tasks EXCEPT ![i].st = "fetching"]
    /\ UNCHANGED <<config, pc, minute, results, analysis, todo, status_window,
                   alerts, now, call, outcome, args, log>>

(* The request of a task ends with the response or failure r, read at      *)
(* clock time t: fetch returns or raises, and the permit is given back.    *)
Complete(i, r, t) ==
    /\ Running
    /\ tasks[i].st = "fetching"
    /\ LET out == fetch(tasks[i].engine, engine_keys(config, tasks[i].engine), r, t)
       IN  /\ tasks' = [tasks EXCEPT ![i].st = "done", ![i].out = out]
           /\ sem' = IF tasks[i].minute = minute THEN permits_after(out, sem) ELSE sem
    /\ now' = t
    /\ UNCHANGED <<config, pc, minute, results, analysis, todo, status_window,
                   alerts, call, outcome, args, log>>

\* An analysis that reports an engine without results with counts and rates 0.
cycle_analysis_zero_filled(cfg, rs) ==
    LET names == [i \in 1..Len(cfg.search_engines) |-> cfg.search_engines[i].name]
        missing == SelectSeq(names, LAMBDA e : \A i \in 1..Len(rs) : rs[i].engine # e)
    IN  analyze_results(rs) \o
        [i \in 1..Len(missing) |->
            [engine |-> missing[i], total |-> 0, success |-> 0, timeout |-> 0,
             exceptions |-> 0, errors |-> 0, success_rate |-> 0, timeout_rate |-> 0,
             exception_rate |-> 0, error_rate |-> 0, results |-> <<>>]]

(* analysis = self.analyze_results(results): the configured engines play   *)
(* no part, the entries come from the results alone.                       *)
cycle_analysis(cfg, rs) == analyze_results(rs)

\* gather returns the results; they are analysed.
GatherReturn ==
    /\ pc = "gather"
    /\ gather_done(tasks)
    /\ ~gather_raised(tasks)
    /\ results' = gather_results(tasks)
    /\ analysis' = cycle_analysis(config, results')
    /\ todo' = [i \in 1..Len(analysis') |-> analysis'[i].engine]
    /\ pc' = "process"
    /\ UNCHANGED <<config, minute, sem, tasks, status_window, alerts, now, call,
                   outcome, args, log>>

\* gather raises what a task raised: except Exception logs and re-raises.
GatherRaise ==
    /\ pc = "gather"
    /\ gather_raised(tasks)
    /\ pc' = "failed"
    /\ log' = except_Exception(log)
    /\ UNCHANGED <<config, minute, sem, tasks, results, analysis, todo,
                   status_window, alerts, now, call, outcome, args>>

(* The body of `for engine, stats in analysis.items()` for the next        *)
(* engine: the four appends, then check_alerts with its send_alert calls,  *)
(* each post meeting one of the outcomes of posts.  An exception ends the  *)
(* run through the except and finally blocks of monitor.                   *)
ProcessEngine(posts) ==
    /\ pc = "process"
    /\ todo # <<>>
    /\ LET engine == Head(todo)
           stats == analysis[CHOOSE i \in 1..Len(analysis) : analysis[i].engine = engine]
           window == [status_window EXCEPT
                        ![engine] = push_rates(status_window[engine], stats)]
       IN  /\ status_window' = window
           /\ IF check_alerts_raises(window[engine], config)
              THEN /\ pc' = "failed"
                   /\ log' = except_Exception(log)
                   /\ UNCHANGED <<alerts, todo>>
              ELSE LET new == check_alerts(engine, stats, window, config)
                   IN  \E ps \in [1..Len(new) -> posts] :
                          LET outs == [i \in 1..Len(new) |->
                                         send_alert(config.dingtalk_webhook, ps[i])]
                              raising == { i \in 1..Len(new) : outs[i].raised }
                              last == IF raising = {} THEN Len(new)
                                      ELSE CHOOSE i \in raising : \A j \in raising : i <= j
                              calls == [i \in 1..last |->
                                          [engine |-> new[i].engine,
                                           rule |-> new[i].rule,
                                           data_list |-> new[i].data_list,
                                           minute |-> minute,
                                           delivery |-> outs[i].delivery]]
                          IN  /\ alerts' = emit(alerts, calls)
                              /\ IF raising = {}
                                 THEN /\ todo' = Tail(todo)
                                      /\ UNCHANGED <<pc, log>>
                                 ELSE /\ pc' = "failed"
                                      /\ log' = except_Exception(log)
                                      /\ UNCHANGED todo
    /\ UNCHANGED <<config, minute, sem, tasks, results, analysis, now, call, outcome, args>>

\* await asyncio.sleep(60), and the loop variable moves on.
Sleep ==
    /\ pc = "process"
    /\ todo = <<>>
    /\ minute' = minute + 1
    /\ pc' = "loop"
    /\ UNCHANGED <<config, sem, tasks, results, analysis, todo, status_window,
                   alerts, now, call, outcome, args, log>>

(* CancelledError is thrown into a task that has not finished: its         *)
(* request is cut off, or it leaves the wait for a permit.                 *)
cancelled(t) ==
    IF t.st = "fetching" THEN [t EXCEPT !.st = "aborted"]
    ELSE IF t.st = "created" THEN [t EXCEPT !.st = "cancelled"]
    ELSE t

(* What the main log receives when SIGINT ends the run: the finally block  *)
(* always runs; `except KeyboardInterrupt` of monitor runs only where the  *)
(* interpreter raises KeyboardInterrupt inside the coroutine (asyncio.run  *)
(* of Python 3.11 cancels the main task instead).                          *)
interrupt_notices == { <<EndNotice>>, <<InterruptNotice, EndNotice>> }

(* SIGINT while monitor runs: asyncio.run cancels the main task and every  *)
(* task still pending, the cancelled tasks give their permits back, the    *)
(* finally block of monitor logs, and main exits.                          *)
Interrupt ==
    /\ Running
    /\ tasks' = [i \in 1..Len(tasks) |-> cancelled(tasks[i])]
    /\ sem' = sem + Cardinality({ i \in 1..Len(tasks) :
                                    tasks[i].st = "fetching" /\ tasks[i].minute = minute })
    /\ pc' = "interrupted"
    /\ \E notices \in interrupt_notices : log' = log \o notices
    /\ UNCHANGED <<config, minute, results, analysis, todo, status_window, alerts,
                   now, call, outcome, args>>

\* required_keys of Config._validate_config
required_keys == {"search_engines", "search_terms", "monitoring", "thresholds", "auth"}

\* Config._validate_config: no ValueError is raised.
validate_config(cfg) == required_keys \subseteq cfg.top_level

(* main before the run: the configuration is validated, --engines is       *)
(* checked against the configured engines and filters them, and a          *)
(* --duration that is given and not 0 replaces the configured run length.  *)
Main ==
    /\ pc = "main"
    /\ IF ~validate_config(config)
       THEN /\ pc' = "config_error"
            /\ UNCHANGED config
       ELSE IF args.engines # {} /\ ~(args.engines \subseteq engine_names(config))
       THEN /\ pc' = "engines_error"
            /\ UNCHANGED config
       ELSE /\ pc' = "start"
            /\ config' =
                  [config EXCEPT
                     !.search_engines =
                         IF args.engines # {}
                         THEN SelectSeq(@, LAMBDA e : e.name \in args.engines)
                         ELSE @,
                     !.monitor_duration_minutes =
                         IF args.duration_given /\ args.duration # 0
                         THEN args.duration
                         ELSE @]
    /\ UNCHANGED <<minute, sem, tasks, results, analysis, todo, status_window,
                   alerts, now, call, outcome, args, log>>

(* The exit code of the process: sys.exit(1) for a configuration error, an *)
(* unknown engine and an exception of the run; 0 when monitor returns and  *)
(* after an interrupt; -1 stands for a process that has not ended.         *)
exit_code ==
    CASE pc \in {"config_error", "engines_error", "failed"} -> 1
      [] pc \in {"returned", "finished", "interrupted"} -> 0
      [] OTHER -> 0 - 1

\* The clock readings a completion may see: time does not go back.
clock_reads(limit) == { t \in {now, now + 1} : t <= limit }

NextRun(network, limit, posts, remember) ==
    \/ Start
    \/ StartCycle(remember)
    \/ Finish
    \/ \E i \in 1..Len(tasks) : Acquire(i)
    \/ \E i \in 1..Len(tasks) : \E r \in network : \E t \in clock_reads(limit) :
          Complete(i, r, t)
    \/ GatherReturn
    \/ GatherRaise
    \/ ProcessEngine(posts)
    \/ Sleep

\* A run whose webhook answers every post, recorded cycle by cycle.
NextWith(network, limit) == NextRun(network, limit, {"status_200"}, FALSE)

\* No option on the command line.
NoArgs == [engines |-> {}, duration_given |-> FALSE, duration |-> 0]

InitWith(configs) ==
    /\ config \in configs
    /\ pc = "start"
    /\ minute = 0
    /\ sem = 0
    /\ tasks = <<>>
    /\ results = <<>>
    /\ analysis = <<>>
    /\ todo = <<>>
    /\ status_window = <<>>
    /\ alerts = <<>>
    /\ now = 0
    /\ call = None
    /\ outcome = NoOutcome
    /\ args = NoArgs
    /\ log = <<>>

-----------------------------------------------------------------------------
(* The run of the monitor under small configurations.                      *)

Complete2 == {"domain", "param"}

\* The probes' network: a good answer, a gateway error, a refused connection.
Good == [kind |-> "response", status |-> 200, content_type |-> {AppJson},
         size |-> MIN_CONTENT_SIZE_KB * 1024, elapsed |-> 0]
BadGateway == [kind |-> "response", status |-> 502, content_type |-> {TextHtml},
               size |-> MIN_CONTENT_SIZE_KB * 1024 - 1, elapsed |-> 0]
Refused == [kind |-> "exception", exception |-> "ClientConnectorError", elapsed |-> 0]

Slow == [kind |-> "response", status |-> 200, content_type |-> {AppJson},
         size |-> MIN_CONTENT_SIZE_KB * 1024, elapsed |-> TIMEOUT_LIMIT + 1]

Google == [name |-> "google", keys |-> Complete2]
Bing == [name |-> "bing", keys |-> Complete2]
BingNoDomain == [name |-> "bing", keys |-> {"param"}]

config_of(engines, concurrency, requests, duration) ==
    [search_engines |-> engines,
     concurrency |-> concurrency,
     requests_per_engine |-> requests,
     monitor_duration_minutes |-> duration,
     threshold_success_rate |-> 5000,
     threshold_timeout_rate |-> 5000,
     success_rate_is_number |-> TRUE,
     dingtalk_webhook |-> TRUE,
     top_level |-> required_keys]

(* Spec: two engines, one of them possibly without its domain, every cap   *)
(* and batch size up to the bounds and every run length from -1 up to its  *)
(* bound; the probes meet a good                                           *)
(* answer or a refused connection, and the clock stands still in a cycle.  *)
Network == {Good, Refused}

Configs ==
    { config_of(e, c, n, d) :
        e \in { <<Google, Bing>>, <<Google, BingNoDomain>> },
        c \in 1..MaxConcurrency,
        n \in 0..MaxRequests,
        d \in (0 - 1)..MaxDuration }

Init == InitWith(Configs)

Next == NextWith(Network, 0)

Spec == Init /\ [][Next]_vars

(* SpecLive: runs of one cycle, for every cap and batch size up to the     *)
(* bounds, on an event loop that runs every task that is ready: a          *)
(* task that can take a permit takes it, a request that has been sent ends *)
(* (the per-call timeout bounds it), and gather hands its result or its    *)
(* exception to monitor.                                                   *)
LiveConfigs ==
    { config_of(e, c, n, 1) :
        e \in { <<Google, Bing>>, <<Google, BingNoDomain>> },
        c \in 1..MaxConcurrency,
        n \in 0..MaxRequests }

InitLive == InitWith(LiveConfigs)

Fairness ==
    /\ WF_vars(\E i \in 1..Len(tasks) : Acquire(i))
    /\ WF_vars(\E i \in 1..Len(tasks) : \E r \in Network : \E t \in clock_reads(0) :
                  Complete(i, r, t))
    /\ WF_vars(GatherReturn)
    /\ WF_vars(GatherRaise)

SpecLive == InitLive /\ [][Next]_vars /\ Fairness

(* SpecWindow: the rolling windows over WindowCycles cycles; one engine    *)
(* with up to MaxRequests probes a cycle, or two engines with one each     *)
(* (the second one complete, or without its domain).                       *)
WindowNetwork == {Good, Refused, BadGateway, Slow}

WindowConfigs ==
    { config_of(<<Google>>, 1, n, WindowCycles) : n \in 1..MaxRequests }
    \cup { config_of(<<Google, Bing>>, 1, 1, WindowCycles),
           config_of(<<Google, BingNoDomain>>, 1, 1, WindowCycles) }

InitWindow == InitWith(WindowConfigs)

NextWindow == NextWith(WindowNetwork, 0)

SpecWindow == InitWindow /\ [][NextWindow]_vars

(* SpecBurst: one cycle of one engine with BurstRequests probes, two in    *)
(* flight at a time, answered in any order while the clock ticks (and the  *)
(* cycle of an engine without its domain).                                 *)
ServiceUnavailable == [kind |-> "response", status |-> 503, content_type |-> {TextHtml},
                       size |-> MIN_CONTENT_SIZE_KB * 1024 - 1, elapsed |-> 0]
InternalError == [kind |-> "response", status |-> 500, content_type |-> {TextHtml},
                  size |-> MIN_CONTENT_SIZE_KB * 1024 - 1, elapsed |-> 0]

BurstNetwork == {Good, BadGateway, InternalError, ServiceUnavailable}

BurstConfigs == { config_of(<<Google>>, 2, BurstRequests, 1),
                  config_of(<<BingNoDomain>>, 2, 1, 1) }

InitBurst == InitWith(BurstConfigs)

NextBurst == NextWith(BurstNetwork, MaxClock)

SpecBurst == InitBurst /\ [][NextBurst]_vars

(* SpecAlerts: the alerts of a whole run, with a webhook that answers, *)
(* answers with an error status or fails, or with no webhook at all.  One  *)
(* engine with one probe a cycle over WindowCycles cycles; one engine with *)
(* RuleRequests probes a cycle, or two engines with one each, until the    *)
(* windows are full, or two engines with no probe at all (and the cycle of *)
(* an engine without its domain).                                          *)
SlowBadGateway == [kind |-> "response", status |-> 502, content_type |-> {TextHtml},
                   size |-> MIN_CONTENT_SIZE_KB * 1024 - 1, elapsed |-> TIMEOUT_LIMIT + 1]

AlertNetwork == {Good, Refused, SlowBadGateway}

AlertConfigs ==
    { config_of(<<Google>>, 1, 1, WindowCycles),
      [config_of(<<Google>>, 1, 1, WindowCycles) EXCEPT !.dingtalk_webhook = FALSE],
      config_of(<<Google>>, 1, RuleRequests, maxlen),
      config_of(<<Google, Bing>>, 1, 1, maxlen),
      config_of(<<Google, Bing>>, 1, 0, maxlen),
      config_of(<<BingNoDomain>>, 1, 1, 1) }

InitAlerts == InitWith(AlertConfigs)

NextAlerts == NextRun(AlertNetwork, 0, Posts, TRUE)

SpecAlerts == InitAlerts /\ [][NextAlerts]_vars

(* SpecPair: two engines side by side.  One cycle with BurstLength probes  *)
(* each, two in flight at a time, answered in any order while the clock    *)
(* ticks; three cycles with one probe each; and the cycle of an engine     *)
(* without its domain.  A probe is answered well, or late with a gateway   *)
(* error.                                                                  *)
PairNetwork == {Good, SlowBadGateway}

PairConfigs ==
    { config_of(<<Google, Bing>>, 2, BurstLength, 1),
      config_of(<<Google, Bing>>, 1, 1, maxlen),
      config_of(<<Google, BingNoDomain>>, 1, 1, 1) }

InitPair == InitWith(PairConfigs)

NextPair == NextWith(PairNetwork, MaxClock)

SpecPair == InitPair /\ [][NextPair]_vars

(* SpecScenario: the run of one engine over three cycles of                 *)
(* ScenarioRequests probes, two in flight at a time, with a success-rate   *)
(* threshold of 95 percent; every probe is answered well or refused (and   *)
(* the cycle of an engine without its domain).                             *)
ScenarioConfigs ==
    { [config_of(<<Google>>, 2, ScenarioRequests, maxlen)
          EXCEPT !.threshold_success_rate = 9500],
      config_of(<<BingNoDomain>>, 1, 1, 1) }

InitScenario == InitWith(ScenarioConfigs)

NextScenario == NextWith(Network, 0)

SpecScenario == InitScenario /\ [][NextScenario]_vars

(* SpecBoundary: consecutive cycles of one engine with BurstLength probes  *)
(* each, one after the other, answered well or with a gateway error; the   *)
(* alerts of the whole run are recorded (and the cycle of an engine        *)
(* without its domain).                                                    *)
BoundaryNetwork == {Good, BadGateway}

BoundaryConfigs ==
    { config_of(<<Google>>, 1, BurstLength, MaxDuration),
      config_of(<<BingNoDomain>>, 1, 1, 1) }

InitBoundary == InitWith(BoundaryConfigs)

NextBoundary == NextRun(BoundaryNetwork, 0, {"status_200"}, TRUE)

SpecBoundary == InitBoundary /\ [][NextBoundary]_vars

(* SpecInterrupt: runs of up to two cycles that SIGINT may end at any       *)
(* moment.                                                                 *)
InterruptConfigs ==
    { config_of(<<Google, Bing>>, 1, 1, MaxDuration),
      config_of(<<Google>>, MaxConcurrency, MaxRequests, MaxDuration),
      config_of(<<Google, BingNoDomain>>, 1, 1, 1) }

InitInterrupt == InitWith(InterruptConfigs)

NextInterrupt == NextWith(Network, 0) \/ Interrupt

SpecInterrupt == InitInterrupt /\ [][NextInterrupt]_vars

(* SpecFault: runs that meet an exception, in the batch (an engine without *)
(* its domain) or in the alert evaluation (a success-rate threshold that   *)
(* config.json gives as a string), next to a run that meets none.          *)
FaultConfigs ==
    { config_of(<<Google, Bing>>, 1, 1, MaxDuration),
      config_of(<<Google, BingNoDomain>>, 1, 1, MaxDuration),
      [config_of(<<Google, Bing>>, 1, 1, WindowCycles)
          EXCEPT !.success_rate_is_number = FALSE] }

InitFault == InitWith(FaultConfigs)

NextFault == NextWith(Network, 0)

SpecFault == InitFault /\ [][NextFault]_vars

(* SpecMain: the program from main on, with configurations that lack a     *)
(* required field, an engine's domain or parameter name, or every engine,  *)
(* and with command lines that select engines and set the duration.        *)
GoogleNoParam == [name |-> "google", keys |-> {"domain"}]

MainConfigs ==
    { [config_of(<<Google, Bing>>, 1, 1, 1) EXCEPT !.top_level = required_keys \ {k}] :
        k \in required_keys }
    \cup { config_of(e, 1, 1, 1) :
             e \in { <<Google, Bing>>, <<Google, BingNoDomain>>,
                     <<GoogleNoParam, Bing>>, <<>> } }

MainArgs ==
    [engines : { {}, {"google"}, {"google", "yahoo"} },
     duration_given : BOOLEAN,
     duration : {0, 2}]

InitMain ==
    /\ config \in MainConfigs
    /\ args \in { a \in MainArgs : ~a.duration_given => a.duration = 0 }
    /\ pc = "main"
    /\ minute = 0
    /\ sem = 0
    /\ tasks = <<>>
    /\ results = <<>>
    /\ analysis = <<>>
    /\ todo = <<>>
    /\ status_window = <<>>
    /\ alerts = <<>>
    /\ now = 0
    /\ call = None
    /\ outcome = NoOutcome
    /\ log = <<>>

NextMain == Main \/ NextWith(Network, 0)

SpecMain == InitMain /\ [][NextMain]_vars

-----------------------------------------------------------------------------
(* One fetch call on its own: every engine entry, every response and every *)
(* failure of the request, for both programs.                              *)

Programs == {"serp_monitor.py", "SERP_Monitor_log.py"}

\* SEARCH_ENGINES of the older script is a literal whose entries are complete.
Calls ==
    { c \in [program : Programs, engine : {"google"},
             engine_config : EngineConfigs, response : Responses] :
        c.program = "SERP_Monitor_log.py" => c.engine_config = {"domain", "param"} }

MonitorIdle ==
    /\ config = None
    /\ pc = "idle"
    /\ minute = 0
    /\ sem = 0
    /\ tasks = <<>>
    /\ results = <<>>
    /\ analysis = <<>>
    /\ todo = <<>>
    /\ status_window = <<>>
    /\ alerts = <<>>
    /\ now = 0
    /\ args = NoArgs
    /\ log = <<>>

InitFetch ==
    /\ MonitorIdle
    /\ call \in Calls
    /\ outcome = NoOutcome

FetchCall ==
    /\ outcome.kind = "none"
    /\ outcome' = IF call.program = "serp_monitor.py"
                  THEN fetch(call.engine, call.engine_config, call.response, 0)
                  ELSE log_fetch(call.engine, call.engine_config, call.response, 0)
    /\ UNCHANGED <<call, monitorVars>>

NextFetch == FetchCall

SpecFetch == InitFetch /\ [][NextFetch]_vars

-----------------------------------------------------------------------------
(* analyze_results on its own: every batch of up to MaxBatch results that  *)
(* fetch can return for two engines.                                       *)

AnalyzeNetwork == {Good, Slow, BadGateway, ServiceUnavailable, Refused}

ProbeResults ==
    { fetch(e, Complete2, r, 0).result : e \in {"google", "bing"}, r \in AnalyzeNetwork }

Batches == UNION { [1..n -> ProbeResults] : n \in 0..MaxBatch }

InitAnalyze ==
    /\ MonitorIdle
    /\ call = None
    /\ outcome = NoOutcome

AnalyzeCall ==
    /\ pc = "idle"
    /\ \E batch \in Batches :
          /\ results' = batch
          /\ analysis' = analyze_results(batch)
    /\ pc' = "analyzed"
    /\ UNCHANGED <<config, minute, sem, tasks, todo, status_window, alerts, now,
                   call, outcome, args, log>>

NextAnalyze == AnalyzeCall

SpecAnalyze == InitAnalyze /\ [][NextAnalyze]_vars

-----------------------------------------------------------------------------
(* Properties *)

\* The probe tasks that hold a permit and have not finished their fetch.
InFlight == { i \in 1..Len(tasks) : tasks[i].st = "fetching" }

\* The send_alert calls of the current cycle for one engine and one rule.
AlertsOf(engine, rule) ==
    { i \in 1..Len(alerts) :
        alerts[i].engine = engine /\ alerts[i].rule = rule /\ alerts[i].minute = minute }

\* Every engine of the cycle's analysis has been pushed and evaluated.
CycleEvaluated == pc = "process" /\ todo = <<>>

(* C1: at every moment the number of probe tasks in flight, over all       *)
(* engines together, is at most the configured concurrency cap.            *)
C1_InFlightWithinCap == Cardinality(InFlight) <= config.concurrency

\* The cap is reached by probes of two engines while another task waits.
C1_Witness ==
    /\ pc = "gather"
    /\ Cardinality(InFlight) = config.concurrency
    /\ \E i \in InFlight : \E j \in InFlight : tasks[i].engine # tasks[j].engine
    /\ \E k \in 1..Len(tasks) : tasks[k].st = "created"

(* C2: the cycle boundary is a barrier.  A probe that has not completed    *)
(* belongs to the current cycle, whose gather the loop is waiting in (or   *)
(* which has failed), with the previous cycle's alert evaluation finished; *)
(* all tasks are of one cycle; and what is aggregated is the result of     *)
(* every probe of the current cycle, all of them completed.                *)
C2_CycleBarrier ==
    /\ \A i \in 1..Len(tasks) :
          tasks[i].st # "done" =>
             /\ tasks[i].minute = minute
             /\ pc \in {"gather", "failed"}
             /\ todo = <<>>
    /\ \A i \in 1..Len(tasks) : \A j \in 1..Len(tasks) : tasks[i].minute = tasks[j].minute
    /\ pc = "process" =>
          /\ \A i \in 1..Len(tasks) : tasks[i].minute = minute /\ tasks[i].st = "done"
          /\ Len(results) = Len(tasks)

\* A probe of the second cycle is in flight.
C2_Witness ==
    /\ minute = 1
    /\ pc = "gather"
    /\ \E i \in 1..Len(tasks) : tasks[i].st = "fetching"

(* C3: once a cycle is evaluated, the success-rate alert has been emitted  *)
(* for an engine (once) exactly when its success-rate buffer holds three   *)
(* values, all three strictly below the threshold.                         *)
C3_SuccessRateAlert ==
    CycleEvaluated =>
        \A e \in engine_names(config) :
            LET b == status_window[e].success_rate
                low == Len(b) = 3 /\ b[1] < config.threshold_success_rate
                                  /\ b[2] < config.threshold_success_rate
                                  /\ b[3] < config.threshold_success_rate
            IN  Cardinality(AlertsOf(e, "success_rate")) = IF low THEN 1 ELSE 0

\* The alert fires in the fourth cycle, on a window that has already rolled.
C3_Witness ==
    /\ CycleEvaluated
    /\ minute = 3
    /\ AlertsOf("google", "success_rate") # {}
    /\ status_window["google"].success_rate[3] = 0

(* C4: once a cycle is evaluated, the timeout-rate alert has been emitted  *)
(* for an engine (once) exactly when its timeout-rate buffer holds three   *)
(* values, all three strictly above the threshold.                         *)
C4_TimeoutRateAlert ==
    CycleEvaluated =>
        \A e \in engine_names(config) :
            LET b == status_window[e].timeout_rate
                high == Len(b) = 3 /\ b[1] > config.threshold_timeout_rate
                                   /\ b[2] > config.threshold_timeout_rate
                                   /\ b[3] > config.threshold_timeout_rate
            IN  Cardinality(AlertsOf(e, "timeout_rate")) = IF high THEN 1 ELSE 0

\* The alert fires with every probe of the last three cycles timed out.
C4_Witness ==
    /\ CycleEvaluated
    /\ AlertsOf("google", "timeout_rate") # {}
    /\ status_window["google"].timeout_rate = <<10000, 10000, 10000>>

\* The indices in results of one engine's results.
ResultsOf(engine) == { i \in 1..Len(results) : results[i].engine = engine }

(* The place of result i among its engine's results sorted ascending by    *)
(* timestamp, equal timestamps in the order of the batch.                  *)
PlaceByTimestamp(i) ==
    1 + Cardinality({ j \in ResultsOf(results[i].engine) :
                        \/ results[j].timestamp < results[i].timestamp
                        \/ results[j].timestamp = results[i].timestamp /\ j < i })

\* Three consecutive places of the engine's sorted results hold server errors.
ThreeConsecutiveServerErrors(engine) ==
    \E p \in 1..Len(results) :
        \A d \in 0..2 :
            \E i \in ResultsOf(engine) :
                PlaceByTimestamp(i) = p + d /\ results[i].status \in {500, 502, 504}

(* C5: once a cycle is evaluated, exactly one burst alert has been emitted *)
(* for an engine whose results, sorted by timestamp, hold server errors in *)
(* three consecutive places, and none for any other engine.                *)
C5_BurstAlert ==
    CycleEvaluated =>
        \A e \in engine_names(config) :
            Cardinality(AlertsOf(e, "burst")) =
                IF ThreeConsecutiveServerErrors(e) THEN 1 ELSE 0

\* A burst that shows only after sorting: the batch order has no run of three.
C5_Witness ==
    /\ CycleEvaluated
    /\ Cardinality(AlertsOf("google", "burst")) = 1
    /\ ~found_3_in_row([i \in 1..Len(results) |-> results[i].status])

\* The rate of the engine now processed, for one of the four buffers.
PushedRate(buffer) ==
    LET stats == analysis[CHOOSE i \in 1..Len(analysis) : analysis[i].engine = Head(todo)]
    IN  CASE buffer = "success_rate" -> stats.success_rate
          [] buffer = "timeout_rate" -> stats.timeout_rate
          [] buffer = "exception_rate" -> stats.exception_rate
          [] buffer = "error_rate" -> stats.error_rate

Buffers == {"success_rate", "timeout_rate", "exception_rate", "error_rate"}

\* One engine of the cycle is processed in this step.
EngineStep == pc = "process" /\ todo # <<>> /\ todo' = Tail(todo)

(* C6: every buffer holds at most three values, and the push of a cycle    *)
(* onto a buffer of three removes the oldest one and keeps the other two   *)
(* in order, followed by the new value (a shorter buffer is extended).     *)
C6_RollingBuffers ==
    /\ [](pc \in {"loop", "gather", "process", "failed", "finished"} =>
            \A e \in engine_names(config) : \A b \in Buffers :
                Len(status_window[e][b]) <= 3)
    /\ [][EngineStep =>
            \A b \in Buffers :
                LET old == status_window[Head(todo)][b]
                    new == status_window'[Head(todo)][b]
                IN  new = IF Len(old) = 3
                          THEN <<old[2], old[3], PushedRate(b)>>
                          ELSE old \o <<PushedRate(b)>>]_vars

\* The fourth cycle's push has evicted the first cycle's rate.
C6_Witness ==
    /\ CycleEvaluated
    /\ minute = 3
    /\ status_window["google"].success_rate = <<5000, 10000, 0>>

\* Some run of four characters of s spells html, in any case.
HtmlMarker(s) ==
    \E k \in 0..(Len(s) - 4) :
        /\ s[k + 1] \in {"h", "H"}
        /\ s[k + 2] \in {"t", "T"}
        /\ s[k + 3] \in {"m", "M"}
        /\ s[k + 4] \in {"l", "L"}

\* The fetch call has ended by returning a result.
Returned == outcome.kind = "return"

\* The request was sent and a response was read.
GotResponse == Returned /\ call.response.kind = "response"

(* C7: a result of fetch has success true exactly when the status is 200,  *)
(* the content type holds no HTML marker and the size is at least the      *)
(* floor.                                                                  *)
C7_SuccessIff ==
    Returned =>
        (outcome.result.success <=>
            /\ outcome.result.status = 200
            /\ call.response.kind = "response"
            /\ ~HtmlMarker(HeaderGet(call.response.content_type))
            /\ call.response.size >= MIN_CONTENT_SIZE_KB * 1024)

\* C7 for the results of SERPMonitor.fetch alone, where it holds.
C7_SuccessIff_serp_monitor == call.program = "serp_monitor.py" => C7_SuccessIff

\* The request was sent and failed.
RequestFailed ==
    /\ outcome.kind # "none"
    /\ ~build_payload(call.engine_config).raised
    /\ call.response.kind = "exception"

(* C8: every failure of the request, of whatever kind and after whatever   *)
(* time, gives a result with status 0, success false and is_timeout true.  *)
C8_FailureResult ==
    RequestFailed =>
        /\ Returned
        /\ outcome.result.status = 0
        /\ outcome.result.success = FALSE
        /\ outcome.result.is_timeout = TRUE

\* A connection refused at once is recorded as a timeout.
C8_Witness ==
    /\ RequestFailed
    /\ call.response.exception = "ClientConnectorError"
    /\ call.response.elapsed = 0
    /\ outcome.result.is_timeout

(* C9: fetch always returns a result and never raises; whenever an         *)
(* exception was raised while the probe was performed, also one raised     *)
(* while the request was built, the result has status 0.                   *)
C9_FetchNeverRaises ==
    outcome.kind # "none" =>
        /\ Returned
        /\ (build_payload(call.engine_config).raised \/ call.response.kind = "exception")
              => outcome.result.status = 0

(* C10: for a probe that got a response, is_timeout is true exactly when   *)
(* the elapsed seconds are strictly above the timeout limit, whatever      *)
(* success is.                                                             *)
C10_TimeoutIff ==
    GotResponse =>
        (outcome.result.is_timeout <=> call.response.elapsed > TIMEOUT_LIMIT)

\* A probe both successful and timed out.
C10_Witness ==
    /\ GotResponse
    /\ outcome.result.success
    /\ outcome.result.is_timeout

\* x is count out of total as a percentage, to the nearest hundredth.
IsPercentage(x, count, total) ==
    LET d == x * total - count * 10000
    IN  2 * (IF d < 0 THEN 0 - d ELSE d) <= total

\* The number of one engine's results that are in the set kept.
CountOf(engine, kept) == Cardinality({ i \in ResultsOf(engine) : results[i] \in kept })

(* C11: for every engine with a result in the batch, analyze_results has   *)
(* exactly one entry, whose total is the number of the engine's results,   *)
(* whose success, timeout, exceptions and errors are the numbers of them   *)
(* with success true, with is_timeout true, with a status in {500, 502,    *)
(* 504} and with status 0, and whose four rates are these counts as        *)
(* percentages of the total, rounded to two decimals.                      *)
C11_CycleStats ==
    \A e \in { results[i].engine : i \in 1..Len(results) } :
        \E k \in 1..Len(analysis) :
            /\ analysis[k].engine = e
            /\ \A j \in 1..Len(analysis) : analysis[j].engine = e => j = k
            /\ LET all == { results[i] : i \in 1..Len(results) }
                   total == Cardinality(ResultsOf(e))
                   success == CountOf(e, { r \in all : r.success })
                   timeout == CountOf(e, { r \in all : r.is_timeout })
                   exceptions == CountOf(e, { r \in all : r.status \in {500, 502, 504} })
                   errors == CountOf(e, { r \in all : r.status = 0 })
               IN  /\ analysis[k].total = total
                   /\ analysis[k].success = success
                   /\ analysis[k].timeout = timeout
                   /\ analysis[k].exceptions = exceptions
                   /\ analysis[k].errors = errors
                   /\ IsPercentage(analysis[k].success_rate, success, total)
                   /\ IsPercentage(analysis[k].timeout_rate, timeout, total)
                   /\ IsPercentage(analysis[k].exception_rate, exceptions, total)
                   /\ IsPercentage(analysis[k].error_rate, errors, total)

(* Three results of one engine, two of them timed out (66.67 percent), one *)
(* a transport error, and a 503 that is no exception of the statistics.    *)
C11_Witness ==
    /\ pc = "analyzed"
    /\ Len(analysis) = 1
    /\ analysis[1].total = 3
    /\ analysis[1].timeout_rate = 6667
    /\ analysis[1].errors = 1
    /\ analysis[1].exceptions = 0
    /\ \E i \in 1..Len(results) : results[i].status = 503

\* The probe tasks issued in the current cycle, in the order of their creation.
IssuedNow == SelectSeq(tasks, LAMBDA t : t.minute = minute)

(* C12: what a cycle aggregates is the results of exactly the probes       *)
(* issued in that cycle: the batch holds one result per probe of the       *)
(* cycle, each the outcome of that probe, and an engine's statistics,      *)
(* with the results the burst rule reads, are those of the batch that      *)
(* belong to the engine, as many as probes were issued for it.             *)
C12_CycleIsolation ==
    pc = "process" =>
        /\ Len(results) = Len(config.search_engines) * config.requests_per_engine
        /\ Len(results) = Len(IssuedNow)
        /\ \A i \in 1..Len(results) :
              /\ IssuedNow[i].st = "done"
              /\ results[i] = IssuedNow[i].out.result
        /\ \A k \in 1..Len(analysis) :
              /\ analysis[k].total = config.requests_per_engine
              /\ analysis[k].results =
                    SelectSeq(results, LAMBDA r : r.engine = analysis[k].engine)

(* The second cycle is evaluated: all its probes succeeded, none of the    *)
(* first cycle did, and the second rate counts none of the failures.       *)
C12_Witness ==
    /\ CycleEvaluated
    /\ minute = 1
    /\ config.requests_per_engine = 2
    /\ status_window["google"].success_rate = <<0, 10000>>

(* C13: a run of length N > 0 that meets no fault ends after exactly N     *)
(* cycles, each engine's buffers holding one rate per cycle (at most       *)
(* three), with every probe one of a cycle below N and completed; no       *)
(* cycle and no probe exists beyond the N-th.  A run of length N <= 0      *)
(* returns at once: no cycle, no probe, no window.                         *)
C13_RunLength ==
    LET N == config.monitor_duration_minutes
    IN  /\ pc = "finished" =>
              /\ N > 0
              /\ minute = N
              /\ \A i \in 1..Len(tasks) : tasks[i].st = "done" /\ tasks[i].minute = N - 1
              /\ config.requests_per_engine > 0 =>
                    \A e \in engine_names(config) :
                        Len(status_window[e].success_rate) = IF N < 3 THEN N ELSE 3
              /\ log = <<EndNotice>>
        /\ pc = "returned" =>
              /\ N <= 0
              /\ minute = 0
              /\ tasks = <<>>
              /\ status_window = <<>>
              /\ log = <<ZeroNotice>>
        /\ (N <= 0 /\ pc # "idle") => (pc \in {"start", "returned"} /\ tasks = <<>>)
        /\ (N > 0 /\ pc # "idle") =>
              /\ minute <= N
              /\ pc \in {"gather", "process"} => minute < N
              /\ \A i \in 1..Len(tasks) : tasks[i].minute < N

\* A run of two cycles of two probes per engine has ended.
C13_Witness ==
    /\ pc = "finished"
    /\ config.monitor_duration_minutes = 2
    /\ config.requests_per_engine = 2
    /\ minute = 2
    /\ Len(status_window["bing"].success_rate) = 2

\* The number of send_alert calls in sent for one engine and one rule.
SentFor(sent, engine, rule) ==
    Cardinality({ i \in 1..Len(sent) : sent[i].engine = engine /\ sent[i].rule = rule })

\* The buffer holds three rates, all three below the threshold.
AllBelow(b, threshold) ==
    Len(b) = 3 /\ b[1] < threshold /\ b[2] < threshold /\ b[3] < threshold

\* The buffer holds three rates, all three above the threshold.
AllAbove(b, threshold) ==
    Len(b) = 3 /\ b[1] > threshold /\ b[2] > threshold /\ b[3] > threshold

(* C14: alerts are not deduplicated.  Over the send_alert calls of the     *)
(* whole run, the evaluation of an engine in a cycle adds exactly one      *)
(* success-rate (timeout-rate) alert when the condition holds on the       *)
(* updated window and none when it does not, whatever was sent in earlier  *)
(* cycles; so a cycle never has two alerts of one rule for an engine.      *)
C14_NoDeduplication ==
    /\ [](\A i \in 1..Len(alerts) : \A j \in 1..Len(alerts) :
            (/\ alerts[i].engine = alerts[j].engine
             /\ alerts[i].rule = alerts[j].rule
             /\ alerts[i].minute = alerts[j].minute) => i = j)
    /\ [][EngineStep =>
            LET e == Head(todo)
                w == status_window'[e]
            IN  /\ SentFor(alerts', e, "success_rate") =
                      SentFor(alerts, e, "success_rate") +
                      (IF AllBelow(w.success_rate, config.threshold_success_rate)
                       THEN 1 ELSE 0)
                /\ SentFor(alerts', e, "timeout_rate") =
                      SentFor(alerts, e, "timeout_rate") +
                      (IF AllAbove(w.timeout_rate, config.threshold_timeout_rate)
                       THEN 1 ELSE 0)]_vars

(* The condition holds in the third and in the fourth cycle: the run has   *)
(* two success-rate alerts of the engine, one of each cycle.               *)
C14_Witness ==
    /\ CycleEvaluated
    /\ minute = 3
    /\ SentFor(alerts, "google", "success_rate") = 2
    /\ \E i \in 1..Len(alerts) : \E j \in 1..Len(alerts) :
          /\ alerts[i].rule = "success_rate" /\ alerts[i].minute = 2
          /\ alerts[j].rule = "success_rate" /\ alerts[j].minute = 3

\* The place of a rule in check_alerts.
RuleRank(rule) ==
    CASE rule = "success_rate" -> 1
      [] rule = "timeout_rate" -> 2
      [] rule = "burst" -> 3

\* The send_alert calls of the current cycle for one engine.
CycleAlerts(engine) ==
    { i \in 1..Len(alerts) : alerts[i].engine = engine /\ alerts[i].minute = minute }

(* C15: once a cycle is evaluated, the alerts of the cycle for an engine   *)
(* are in the order success-rate, timeout-rate, burst, and each of the     *)
(* three is there exactly when its own condition holds, whether or not an  *)
(* earlier rule has fired.                                                 *)
C15_RuleOrder ==
    CycleEvaluated =>
        \A e \in engine_names(config) :
            /\ \A i \in CycleAlerts(e) : \A j \in CycleAlerts(e) :
                  i < j => RuleRank(alerts[i].rule) < RuleRank(alerts[j].rule)
            /\ (AlertsOf(e, "success_rate") # {}) <=>
                  AllBelow(status_window[e].success_rate, config.threshold_success_rate)
            /\ (AlertsOf(e, "timeout_rate") # {}) <=>
                  AllAbove(status_window[e].timeout_rate, config.threshold_timeout_rate)
            /\ (AlertsOf(e, "burst") # {}) <=> ThreeConsecutiveServerErrors(e)

\* All three rules fire for the engine in one cycle, in their order.
C15_Witness ==
    /\ CycleEvaluated
    /\ \E i \in CycleAlerts("google") :
          /\ alerts[i].rule = "success_rate"
          /\ i + 2 \in CycleAlerts("google")
          /\ alerts[i + 1].rule = "timeout_rate"
          /\ alerts[i + 2].rule = "burst"

\* The cycles whose rates an engine's buffers have received.
PushedCycles(engine) ==
    IF pc = "process" /\ ~\E i \in 1..Len(todo) : todo[i] = engine
    THEN minute + 1
    ELSE minute

\* The alert was not delivered: no webhook, a failed post or an error status.
Undelivered(a) == a.delivery \in {"skipped", "failed", "status_500"}

(* C16: a notification that is not delivered changes nothing.  The run     *)
(* fails only when a probe task has raised, never in send_alert; while the *)
(* run goes on, every engine's buffers have received the rate of every     *)
(* cycle processed so far (at most three are kept); and in an evaluated    *)
(* cycle an undelivered alert is followed by the alert of each later rule  *)
(* whose condition holds.                                                  *)
C16_DeliveryFailureHarmless ==
    /\ pc = "failed" => gather_raised(tasks)
    /\ (pc \in {"loop", "gather", "process", "finished"} /\ config.requests_per_engine > 0) =>
          \A e \in engine_names(config) :
              Len(status_window[e].success_rate) =
                  IF PushedCycles(e) < 3 THEN PushedCycles(e) ELSE 3
    /\ CycleEvaluated =>
          \A e \in engine_names(config) : \A i \in CycleAlerts(e) :
              Undelivered(alerts[i]) =>
                  /\ (/\ alerts[i].rule = "success_rate"
                      /\ AllAbove(status_window[e].timeout_rate,
                                  config.threshold_timeout_rate))
                        => AlertsOf(e, "timeout_rate") # {}
                  /\ (alerts[i].rule # "burst" /\ ThreeConsecutiveServerErrors(e))
                        => AlertsOf(e, "burst") # {}

(* A post of the third cycle failed; the timeout-rate alert of that cycle  *)
(* was still sent, and the fourth cycle ran and sent its alerts.           *)
C16_Witness ==
    /\ CycleEvaluated
    /\ minute = 3
    /\ \E i \in 1..Len(alerts) : \E j \in 1..Len(alerts) :
          /\ alerts[i].minute = 2 /\ alerts[i].rule = "success_rate"
          /\ alerts[i].delivery = "failed"
          /\ alerts[j].minute = 2 /\ alerts[j].rule = "timeout_rate"
    /\ AlertsOf("google", "success_rate") # {}
    /\ Len(status_window["google"].success_rate) = 3

\* Without a webhook: the fourth cycle is evaluated, its alerts skipped.
C16_NoWebhook ==
    /\ CycleEvaluated
    /\ ~config.dingtalk_webhook
    /\ minute = 3
    /\ \E i \in CycleAlerts("google") : alerts[i].delivery = "skipped"

(* C17: when an interrupt has ended the run, no probe that was in flight   *)
(* has been cut off (each was left to complete), no task of a cycle after  *)
(* the interrupted one exists, and the log ends with the end-of-run        *)
(* notice.                                                                 *)
C17_GracefulInterrupt ==
    pc = "interrupted" =>
        /\ \A i \in 1..Len(tasks) : tasks[i].st # "aborted"
        /\ \A i \in 1..Len(tasks) : tasks[i].minute <= minute
        /\ log # <<>> /\ log[Len(log)] = EndNotice

(* The parts of C17 that hold: after an interrupt no cycle is started and  *)
(* the end-of-run notice has been logged.                                  *)
C17_NoNewCycleAndNotice ==
    pc = "interrupted" =>
        /\ \A i \in 1..Len(tasks) : tasks[i].minute <= minute
        /\ log # <<>> /\ log[Len(log)] = EndNotice

(* C18: permits are accounted for.  A task is in flight only with a permit *)
(* taken: the permits left and the tasks in flight add up to the cap, none *)
(* is ever overdrawn; so when every task of the batch has ended, with a    *)
(* result or with an exception, all permits are back.                      *)
C18_PermitsReleased ==
    pc \in {"gather", "process", "failed"} =>
        /\ sem >= 0
        /\ sem + Cardinality(InFlight) = config.concurrency
        /\ (\A i \in 1..Len(tasks) : tasks[i].st = "done") => sem = config.concurrency

\* A batch has ended in which a task raised: every permit is back.
C18_Witness ==
    /\ pc \in {"gather", "failed"}
    /\ tasks # <<>>
    /\ \A i \in 1..Len(tasks) : tasks[i].st = "done"
    /\ \E i \in 1..Len(tasks) : tasks[i].out.kind = "raise"
    /\ \E i \in 1..Len(tasks) : tasks[i].out.kind = "return"
    /\ sem = config.concurrency
    /\ config.concurrency = 2

\* The comparison of a rate with a threshold given as a string has been reached.
AlertEvaluationRaised ==
    /\ pc \in {"process", "loop", "gather", "failed", "finished"}
    /\ ~config.success_rate_is_number
    /\ \E e \in engine_names(config) : Len(status_window[e].success_rate) = 3

(* C19: an exception of a cycle ends the run.  Once a probe task has       *)
(* raised, the loop is still in gather or has failed; once the alert       *)
(* evaluation has raised, it has failed; the run fails for these reasons   *)
(* only.  A failed run has logged the exception and then the end-of-run    *)
(* notice, the exception has left monitor (exit code 1), and nothing is    *)
(* started afterwards: no later cycle, no further probe.                   *)
C19_ExceptionFatal ==
    /\ [](/\ gather_raised(tasks) => pc \in {"gather", "failed"}
          /\ AlertEvaluationRaised => pc = "failed"
          /\ pc = "failed" =>
                /\ gather_raised(tasks) \/ AlertEvaluationRaised
                /\ Len(log) >= 2
                /\ log[Len(log) - 1] = ErrorNotice
                /\ log[Len(log)] = EndNotice
                /\ exit_code = 1)
    /\ [][pc = "failed" =>
            /\ pc' = "failed"
            /\ minute' = minute
            /\ \A i \in 1..Len(tasks) :
                  tasks'[i].st = "fetching" => tasks[i].st = "fetching"]_vars

(* The run has failed in the alert evaluation of its third cycle, after    *)
(* two cycles that were processed.                                         *)
C19_Witness ==
    /\ pc = "failed"
    /\ ~gather_raised(tasks)
    /\ minute = 2
    /\ log = <<ErrorNotice, EndNotice>>

\* The run has failed in the batch of its first cycle.
C19_BatchFault ==
    /\ pc = "failed"
    /\ gather_raised(tasks)
    /\ minute = 0
    /\ log = <<ErrorNotice, EndNotice>>

\* A request of the task has been sent, or answered.
ProbeStarted(t) ==
    /\ t.st \in {"fetching", "done", "aborted"}
    /\ Complete2 \subseteq engine_keys(config, t.engine)

(* The configuration is malformed: a required field is missing, an engine  *)
(* lacks its domain or its parameter name, no engine is configured, or an  *)
(* engine is selected that is not configured.                              *)
Malformed ==
    \/ ~(required_keys \subseteq config.top_level)
    \/ \E i \in 1..Len(config.search_engines) :
          ~({"domain", "param"} \subseteq config.search_engines[i].keys)
    \/ config.search_engines = <<>>
    \/ args.engines # {} /\ ~(args.engines \subseteq engine_names(config))

(* C20: with a malformed configuration no probe is ever started and the    *)
(* process does not run on: it ends with a non-zero exit code.             *)
C20_MalformedConfigFatal ==
    (pc # "idle" /\ Malformed) =>
        /\ \A i \in 1..Len(tasks) : ~ProbeStarted(tasks[i])
        /\ exit_code # 0

(* The parts of C20 that hold: a missing required field and the selection  *)
(* of an engine that is not configured end the program before the run,     *)
(* with exit code 1.                                                       *)
C20_ValidatedParts ==
    (\/ ~(required_keys \subseteq config.top_level)
     \/ args.engines # {} /\ ~(args.engines \subseteq engine_names(config))) =>
        /\ pc \in {"main", "config_error", "engines_error"}
        /\ tasks = <<>>
        /\ exit_code # 0

\* The engine is configured and the batch of the cycle holds no result of it.
Absent(e) ==
    /\ e \in engine_names(config)
    /\ \A i \in 1..Len(results) : results[i].engine # e

(* C21: an engine without a result in the batch of a cycle has no entry in *)
(* the cycle's analysis (it is absent, not reported with zero rates), no   *)
(* step of the cycle's processing changes any of its four buffers, and no  *)
(* rule sends an alert for it in that cycle.                               *)
C21_AbsentEngine ==
    /\ [](pc = "process" =>
            \A e \in engine_names(config) :
                Absent(e) =>
                    /\ \A i \in 1..Len(analysis) : analysis[i].engine # e
                    /\ \A i \in 1..Len(todo) : todo[i] # e
                    /\ \A i \in 1..Len(alerts) :
                          alerts[i].minute = minute => alerts[i].engine # e)
    /\ [][pc = "process" =>
            \A e \in engine_names(config) :
                Absent(e) => status_window'[e] = status_window[e]]_vars

(* The third cycle of a run without probes has been processed: the buffers *)
(* of both engines are still empty.                                        *)
C21_Witness ==
    /\ CycleEvaluated
    /\ minute = maxlen - 1
    /\ Absent("google") /\ Absent("bing")
    /\ status_window["google"] = empty_window
    /\ status_window["bing"] = empty_window
    /\ alerts = <<>>

\* The engines of the cycle's analysis, in its order.
AnalysisKeys == [i \in 1..Len(analysis) |-> analysis[i].engine]

\* The rate of the cycle for an engine of the analysis and one buffer.
CycleRate(e, b) ==
    LET stats == analysis[CHOOSE i \in 1..Len(analysis) : analysis[i].engine = e]
    IN  CASE b = "success_rate" -> stats.success_rate
          [] b = "timeout_rate" -> stats.timeout_rate
          [] b = "exception_rate" -> stats.exception_rate
          [] b = "error_rate" -> stats.error_rate

\* The buffer after one push of x.
OnePush(old, x) == IF Len(old) = 3 THEN <<old[2], old[3], x>> ELSE old \o <<x>>

(* C22: one push per cycle, engine and buffer, between aggregation and     *)
(* evaluation.  While the engines of a cycle are processed every task of   *)
(* the batch has ended and its result is in the batch that was analysed,   *)
(* each engine with a result has one entry in the analysis, and the        *)
(* engines still to be processed are a tail of the analysis.  An engine    *)
(* leaves that list only in the step that processes it, and that step      *)
(* (also when the evaluation raises) makes one push of the cycle's rate on *)
(* each of the engine's four buffers; no other step changes a buffer.  A   *)
(* rate alert sent in the step carries the pushed window, whose newest     *)
(* entry is the rate of the current cycle.                                 *)
C22_OnePushPerCycle ==
    /\ [](pc = "process" =>
            /\ \A i \in 1..Len(tasks) : tasks[i].st = "done"
            /\ Len(results) = Len(tasks)
            /\ \A i \in 1..Len(results) : \E j \in 1..Len(analysis) :
                  analysis[j].engine = results[i].engine
            /\ \A i \in 1..Len(analysis) : \A j \in 1..Len(analysis) :
                  analysis[i].engine = analysis[j].engine => i = j
            /\ \E k \in 0..Len(analysis) :
                  todo = SubSeq(AnalysisKeys, k + 1, Len(analysis)))
    /\ [][ /\ todo' # todo =>
                \/ pc = "gather" /\ pc' = "process" /\ todo' = AnalysisKeys'
                \/ pc = "process" /\ todo' = Tail(todo)
           /\ (pc = "process" /\ todo # <<>>) =>
                /\ pc' = "failed" \/ todo' = Tail(todo)
                /\ \A b \in Buffers :
                      status_window'[Head(todo)][b] =
                          OnePush(status_window[Head(todo)][b], CycleRate(Head(todo), b))
                /\ \A e \in engine_names(config) \ {Head(todo)} :
                      status_window'[e] = status_window[e]
                /\ \A i \in (Len(alerts) + 1)..Len(alerts') :
                      /\ alerts'[i].engine = Head(todo)
                      /\ alerts'[i].rule \in {"success_rate", "timeout_rate"} =>
                            /\ alerts'[i].data_list =
                                  status_window'[Head(todo)][alerts'[i].rule]
                            /\ alerts'[i].data_list[3] =
                                  CycleRate(Head(todo), alerts'[i].rule)
           /\ (pc # "start" /\ ~(pc = "process" /\ todo # <<>>)) =>
                status_window' = status_window]_vars

(* The fourth cycle is evaluated: each buffer has rolled once more, and    *)
(* the success-rate alert of the cycle carries the window that ends with   *)
(* the rate of the cycle.                                                  *)
C22_Witness ==
    /\ CycleEvaluated
    /\ minute = 3
    /\ status_window["google"].exception_rate = <<0, 0, 10000>>
    /\ \E i \in AlertsOf("google", "success_rate") :
          alerts[i].data_list = <<0, 0, 0>>

\* The results of the batch that belong to the engine, in the batch's order.
OwnResults(e) == SelectSeq(results, LAMBDA r : r.engine = e)

(* The rules whose condition holds on the engine's own buffers and own     *)
(* results of the cycle.                                                   *)
OwnRules(e) ==
    { r \in {"success_rate", "timeout_rate", "burst"} :
        \/ r = "success_rate" /\ AllBelow(status_window[e].success_rate,
                                          config.threshold_success_rate)
        \/ r = "timeout_rate" /\ AllAbove(status_window[e].timeout_rate,
                                          config.threshold_timeout_rate)
        \/ r = "burst" /\ ThreeConsecutiveServerErrors(e) }

(* C23: the engines are independent.  The statistics of an engine are made *)
(* from its own results; the step that processes one engine leaves the     *)
(* buffers of every other engine as they are and sends alerts for that     *)
(* engine only; and once a cycle is evaluated the rules that have fired    *)
(* for an engine are those whose condition holds on its own buffers and    *)
(* on its own results in the order of their timestamps, whatever the       *)
(* results of the other engine and wherever they lie in time.              *)
C23_EngineIndependence ==
    /\ [](pc = "process" =>
            \A i \in 1..Len(analysis) :
                analysis[i].results = OwnResults(analysis[i].engine))
    /\ [](CycleEvaluated =>
            \A e \in engine_names(config) :
                { alerts[i].rule : i \in CycleAlerts(e) } = OwnRules(e))
    /\ [][(pc = "process" /\ todo # <<>>) =>
            /\ \A e \in engine_names(config) \ {Head(todo)} :
                  status_window'[e] = status_window[e]
            /\ SubSeq(alerts', 1, Len(alerts)) = alerts
            /\ \A i \in (Len(alerts) + 1)..Len(alerts') :
                  alerts'[i].engine = Head(todo)]_vars

(* A burst of one engine around a good answer of the other: google has     *)
(* three gateway errors, bing an answer with status 200 whose timestamp    *)
(* lies between theirs; the burst alert is sent for google, not for bing.  *)
C23_Witness ==
    /\ CycleEvaluated
    /\ AlertsOf("google", "burst") # {}
    /\ AlertsOf("bing", "burst") = {}
    /\ \E i \in ResultsOf("google") : \E k \in ResultsOf("google") :
       \E b \in ResultsOf("bing") :
          /\ results[i].timestamp < results[b].timestamp
          /\ results[b].timestamp < results[k].timestamp
          /\ results[b].status = 200

(* No run is made longer by the other engine: google has two gateway       *)
(* errors and bing one between them in time, and no burst alert is sent.   *)
C23_NotExtended ==
    /\ CycleEvaluated
    /\ config.requests_per_engine = BurstLength
    /\ AlertsOf("google", "burst") = {}
    /\ AlertsOf("bing", "burst") = {}
    /\ \E i \in ResultsOf("google") : \E k \in ResultsOf("google") :
       \E b \in ResultsOf("bing") :
          /\ results[i].timestamp < results[b].timestamp
          /\ results[b].timestamp < results[k].timestamp
          /\ results[i].status = 502 /\ results[b].status = 502
          /\ results[k].status = 502

(* The success-rate alert of the third cycle is sent for one engine while  *)
(* the other engine's rates are good.                                      *)
C23_RateAlertOfOne ==
    /\ CycleEvaluated
    /\ minute = 2
    /\ AlertsOf("bing", "success_rate") # {}
    /\ AlertsOf("google", "success_rate") = {}
    /\ status_window["google"].success_rate = <<10000, 10000, 10000>>

(* C24: the success-rate alert needs three cycles and carries them oldest  *)
(* first.  No success-rate alert is sent in the first or the second cycle. *)
(* When the n-th cycle of an engine has been processed its buffer holds    *)
(* the rates of the last min(n, 3) cycles, the push of a cycle having put  *)
(* the cycle's rate behind the rates of the cycles before it; the alert of *)
(* a cycle carries exactly that buffer.  In the third cycle the alert is   *)
(* sent when all three rates are below the threshold, and is not sent when *)
(* the rate of the second cycle is not below it, whatever the third is.    *)
C24_SuccessAlertWindow ==
    /\ [](\A i \in 1..Len(alerts) :
            alerts[i].rule = "success_rate" =>
                /\ alerts[i].minute >= 2
                /\ Len(alerts[i].data_list) = 3)
    /\ []((CycleEvaluated /\ config.requests_per_engine > 0) =>
            \A e \in engine_names(config) :
                LET b == status_window[e].success_rate
                IN  /\ Len(b) = IF minute < 2 THEN minute + 1 ELSE 3
                    /\ b[Len(b)] = CycleRate(e, "success_rate")
                    /\ \A i \in AlertsOf(e, "success_rate") : alerts[i].data_list = b
                    /\ (minute = 2 /\ b[2] >= config.threshold_success_rate)
                          => AlertsOf(e, "success_rate") = {}
                    /\ (minute = 2 /\ \A k \in 1..3 : b[k] < config.threshold_success_rate)
                          => AlertsOf(e, "success_rate") # {})
    /\ [][EngineStep =>
            LET old == status_window[Head(todo)].success_rate
                new == status_window'[Head(todo)].success_rate
            IN  /\ new[Len(new)] = CycleRate(Head(todo), "success_rate")
                /\ SubSeq(new, 1, Len(new) - 1) =
                      IF Len(old) = 3 THEN SubSeq(old, 2, 3) ELSE old]_vars

(* Three cycles with one success out of five each: the alert is sent in    *)
(* the third cycle and carries 20, 20, 20.                                 *)
C24_Witness ==
    /\ CycleEvaluated
    /\ minute = 2
    /\ \E i \in AlertsOf("google", "success_rate") :
          alerts[i].data_list = <<2000, 2000, 2000>>

(* Rates 20, 100, 20: the third cycle is evaluated and sends no            *)
(* success-rate alert.                                                     *)
C24_GoodSecondCycle ==
    /\ CycleEvaluated
    /\ minute = 2
    /\ status_window["google"].success_rate = <<2000, 10000, 2000>>
    /\ AlertsOf("google", "success_rate") = {}

\* The burst alerts in sent for the engine and the given cycle.
BurstIn(sent, e, m) ==
    { i \in 1..Len(sent) :
        sent[i].engine = e /\ sent[i].rule = "burst" /\ sent[i].minute = m }

\* The burst alerts of the run sent for the engine in the given cycle.
BurstAlerts(e, m) == BurstIn(alerts, e, m)

(* C25: the burst rule has no memory.  The batch a cycle evaluates holds   *)
(* the results of that cycle's probes and no other; the evaluation of an   *)
(* engine adds one burst alert when three consecutive results of that      *)
(* batch are server errors and none when not, whatever the cycles before   *)
(* have returned and whether or not a burst alert was sent in them.        *)
C25_BurstWithoutMemory ==
    /\ [](pc = "process" =>
            /\ Len(results) = Len(config.search_engines) * config.requests_per_engine
            /\ \A i \in 1..Len(tasks) : tasks[i].minute = minute)
    /\ [](CycleEvaluated =>
            \A e \in engine_names(config) :
                Cardinality(BurstAlerts(e, minute)) =
                    IF ThreeConsecutiveServerErrors(e) THEN 1 ELSE 0)
    /\ [][EngineStep =>
            /\ SentFor(alerts', Head(todo), "burst") =
                  SentFor(alerts, Head(todo), "burst") +
                  (IF ThreeConsecutiveServerErrors(Head(todo)) THEN 1 ELSE 0)
            /\ \A m \in 0..(minute - 1) :
                  BurstIn(alerts', Head(todo), m) = BurstIn(alerts, Head(todo), m)]_vars

(* A run of errors across the boundary: every probe of the first cycle met *)
(* a gateway error (its burst alert was sent), the second cycle begins     *)
(* with a gateway error followed by two good answers and sends none.       *)
C25_Witness ==
    /\ CycleEvaluated
    /\ minute = 1
    /\ status_window["google"].exception_rate[1] = 10000
    /\ [i \in 1..Len(results) |-> results[i].status] = <<502, 200, 200>>
    /\ BurstAlerts("google", 0) # {}
    /\ BurstAlerts("google", 1) = {}

\* A burst in each of two consecutive cycles: each sends its own alert.
C25_BurstAgain ==
    /\ CycleEvaluated
    /\ minute = 1
    /\ BurstAlerts("google", 0) # {}
    /\ BurstAlerts("google", 1) # {}

(* Two errors in each of two consecutive cycles, never three in one        *)
(* cycle: no burst alert in the run.                                       *)
C25_SplitRun ==
    /\ CycleEvaluated
    /\ minute = 1
    /\ status_window["google"].exception_rate = <<6667, 6667>>
    /\ [i \in 1..Len(results) |-> results[i].status] = <<502, 502, 200>>
    /\ \A i \in 1..Len(alerts) : alerts[i].rule # "burst"

\* Contents the exception-rate and the error-rate buffer could have instead.
OtherBuffers == { <<>>, <<0, 0, 0>>, <<10000, 10000, 10000>>, <<0, 10000>> }

\* The alerts a step has added, without the cycle and the delivery.
AddedAlerts(before, after) ==
    [i \in 1..(Len(after) - Len(before)) |->
        [engine |-> after[Len(before) + i].engine,
         rule |-> after[Len(before) + i].rule,
         data_list |-> after[Len(before) + i].data_list]]

(* C26: the exception-rate and the error-rate buffer drive no alert.  The  *)
(* alerts the evaluation of an engine sends are the ones it would send     *)
(* with any other contents of these two buffers, no alert carries either   *)
(* buffer, and the success-rate and timeout-rate buffers after the step    *)
(* come from their own contents before it and the rates of the cycle: so   *)
(* two runs that differ in these two buffers only send the same alerts in  *)
(* every later cycle with the same results.                                *)
C26_DeadBuffers ==
    /\ [](\A i \in 1..Len(alerts) :
            alerts[i].rule \in {"success_rate", "timeout_rate", "burst"})
    /\ [][EngineStep =>
            LET e == Head(todo)
                stats == analysis[CHOOSE i \in 1..Len(analysis) : analysis[i].engine = e]
            IN  /\ \A x \in OtherBuffers : \A y \in OtherBuffers :
                      AddedAlerts(alerts, alerts') =
                          check_alerts(e, stats,
                                       [status_window' EXCEPT ![e].exception_rate = x,
                                                              ![e].error_rate = y],
                                       config)
                /\ status_window'[e].success_rate =
                      OnePush(status_window[e].success_rate, stats.success_rate)
                /\ status_window'[e].timeout_rate =
                      OnePush(status_window[e].timeout_rate, stats.timeout_rate)]_vars

(* Three cycles of late gateway errors: the exception-rate buffer is full  *)
(* of 100 percent, and the alerts of the cycle are those of the success    *)
(* rate and of the timeout rate, no other.                                 *)
C26_Witness ==
    /\ CycleEvaluated
    /\ config.requests_per_engine = 1
    /\ status_window["google"].exception_rate = <<10000, 10000, 10000>>
    /\ status_window["google"].error_rate = <<0, 0, 0>>
    /\ { alerts[i].rule : i \in CycleAlerts("google") } = {"success_rate", "timeout_rate"}

\* Three cycles of refused connections: the error-rate buffer is full.
C26_ErrorBufferFull ==
    /\ CycleEvaluated
    /\ status_window["google"].error_rate = <<10000, 10000, 10000>>
    /\ { alerts[i].rule : i \in CycleAlerts("google") } = {"success_rate", "timeout_rate"}

\* Every engine entry has its domain and its parameter name: fetch returns.
EveryProbeEnds ==
    \A i \in 1..Len(config.search_engines) :
        Complete2 \subseteq config.search_engines[i].keys

(* C27: with probe calls that all end, every task of a batch that waits    *)
(* for a permit is eventually done, and every cycle that waits for its     *)
(* batch eventually reaches the aggregation, for every batch size and      *)
(* every cap from 1 on.                                                    *)
C27_BatchCompletes ==
    /\ \A i \in 1..(2 * MaxRequests) :
          (/\ EveryProbeEnds
           /\ pc = "gather"
           /\ i <= Len(tasks)
           /\ tasks[i].st = "created")
             ~> (i <= Len(tasks) /\ tasks[i].st = "done")
    /\ (EveryProbeEnds /\ pc = "gather") ~> (pc = "process")

(* A batch of four probes under a cap of one has been aggregated: three of *)
(* the tasks had to wait for a permit.                                     *)
C27_Witness ==
    /\ pc = "process"
    /\ EveryProbeEnds
    /\ config.concurrency = 1
    /\ Len(tasks) = 2 * MaxRequests
    /\ \A i \in 1..Len(tasks) : tasks[i].st = "done"
    /\ Len(analysis) = 2

(* C28: with --duration 0 on the command line and a configuration that is  *)
(* accepted, the run length monitor uses is 0 whatever config.json says:   *)
(* no probe task is ever created, and the process ends at the duration     *)
(* check with exit code 0.                                                 *)
C28_ZeroDurationOverride ==
    (/\ args.duration_given
     /\ args.duration = 0
     /\ pc \notin {"main", "config_error", "engines_error"}) =>
        /\ config.monitor_duration_minutes = 0
        /\ tasks = <<>>
        /\ pc \in {"start", "returned"}
        /\ pc = "returned" => exit_code = 0

(* The part of C28 that holds: a run length of 0 in the configuration      *)
(* itself ends the run at the duration check, without a probe task and     *)
(* with exit code 0.                                                       *)
C28_ConfiguredZero ==
    (config.monitor_duration_minutes = 0 /\ pc # "start") =>
        /\ pc = "returned"
        /\ tasks = <<>>
        /\ exit_code = 0
        /\ log = <<ZeroNotice>>

(* C29: in the statistics of every engine made from results of fetch, the  *)
(* transport errors are among the timeouts and the timeouts among all      *)
(* (errors <= timeout <= total); successes, server errors and transport    *)
(* errors are disjoint (their counts add up to at most total); so the      *)
(* error rate is at most the timeout rate and each of the four rates lies  *)
(* between 0 and 100 percent.                                              *)
C29_CountOrder ==
    pc = "analyzed" =>
        \A i \in 1..Len(analysis) :
            LET a == analysis[i]
            IN  /\ 0 <= a.errors /\ a.errors <= a.timeout /\ a.timeout <= a.total
                /\ a.success >= 0 /\ a.exceptions >= 0
                /\ a.success + a.exceptions + a.errors <= a.total
                /\ a.error_rate <= a.timeout_rate
                /\ \A x \in {a.success_rate, a.timeout_rate,
                              a.exception_rate, a.error_rate} : 0 <= x /\ x <= 10000

(* Three results of an engine: a refused connection, a late good answer    *)
(* and a 503.  One error, two timeouts, one success, no server error of    *)
(* the counted kind: every inequality is strict.                           *)
C29_Witness ==
    /\ pc = "analyzed"
    /\ \E i \in 1..Len(analysis) :
          /\ analysis[i].total = 3
          /\ analysis[i].errors = 1
          /\ analysis[i].timeout = 2
          /\ analysis[i].success = 1
          /\ analysis[i].exceptions = 0
          /\ analysis[i].error_rate = 3333
          /\ analysis[i].timeout_rate = 6667

=============================================================================
